---- MODULE Spec2Model ----
(***************************************************************************)
(* Model of src/api.py: a FastAPI service that reads a CSV of survey       *)
(* responses once, at import time, and answers three read-only queries     *)
(* over the in-memory DataFrame: /support, /support_by and /grouped.       *)
(*                                                                         *)
(* Strings are sequences of one-character strings, so that case folding    *)
(* and ordering are computed character by character.  A float rate is a    *)
(* fraction [num, den]; a rate rounded to three decimals is the integer    *)
(* number of thousandths (0.5 is 500, 0.333 is 333).                       *)
(***************************************************************************)
EXTENDS Integers, Sequences, FiniteSets, TLC

VARIABLES
    file,        \* the data file at DATA_PATH, as the environment provides it
    phase,       \* "starting" | "serving" | "aborted"
    df,          \* the module-level DataFrame
    startup_df,  \* history: the DataFrame as read_csv returned it
    loads,       \* history: how many times read_csv returned a DataFrame
    response     \* the request being answered and its response, until it is sent

vars == <<file, phase, df, startup_df, loads, response>>

---------------------------------------------------------------------------
(* Bounds of the model *)

\* Largest number of rows in the data file.
MaxRecords == 2

\* Data values of the five categorical columns.  NaN is what read_csv stores
\* for an empty cell.
NaN == <<"<NaN>">>
GenderValues == {<<"F">>, <<"f">>, NaN}
RaceValues == {<<"A">>, <<"B">>}
AgeGroupValues == {<<"Y">>}
EducationValues == {<<"E">>}
IncomeValues == {<<"L">>}
SupportValues == {0, 1}

\* Values of the query parameters.  None is an absent parameter.
None == <<"<None>">>
GenderParams == {None, <<>>, <<"F">>, <<"f">>, <<"M">>, <<"F", "e">>}
RaceParams == {None, <<"A">>, <<"a">>}
AgeGroupParams == {None, <<"y">>}
EducationParams == {None, <<"E">>}
IncomeParams == {None, <<"H">>}
GroupByParams == {"gender", "race", "age_group", "education", "income",
                  "Gender", "zip_code", "policy_support"}

---------------------------------------------------------------------------
(* Strings *)

Upper == <<"A","B","C","D","E","F","G","H","I","J","K","L","M",
           "N","O","P","Q","R","S","T","U","V","W","X","Y","Z">>
Lower == <<"a","b","c","d","e","f","g","h","i","j","k","l","m",
           "n","o","p","q","r","s","t","u","v","w","x","y","z">>

\* Code points in ascending order (the part of ASCII the model uses).
Ascii == Upper \o <<"_">> \o Lower

CharCode(c) == CHOOSE i \in 1..Len(Ascii) : Ascii[i] = c

\* The folded form of every character that has one other than itself.
FoldTable ==
    [c \in {Upper[i] : i \in 1..Len(Upper)} |->
        Lower[CHOOSE i \in 1..Len(Upper) : Upper[i] = c]]

casefold_char(c) == IF c \in DOMAIN FoldTable THEN FoldTable[c] ELSE c

\* Mutant of casefold: the string as it is.
casefold_identity(s) == s

\* str.casefold(): every character folded, nothing else changed.
casefold(s) == [i \in 1..Len(s) |-> casefold_char(s[i])]

\* Series.str.casefold(): NaN stays NaN.
str_casefold(v) == IF v = NaN THEN NaN ELSE casefold(v)

\* Elementwise ==  of a folded cell and a folded parameter: NaN equals nothing.
cell_eq(cell, value) == cell # NaN /\ cell = value

\* Python's order on strings: by code point, a proper prefix first.
RECURSIVE str_less(_, _)
str_less(a, b) ==
    IF b = <<>> THEN FALSE
    ELSE IF a = <<>> THEN TRUE
    ELSE IF Head(a) = Head(b) THEN str_less(Tail(a), Tail(b))
    ELSE CharCode(Head(a)) < CharCode(Head(b))

---------------------------------------------------------------------------
(* DataFrames *)

CategoricalColumns == {"gender", "race", "age_group", "education", "income"}
RequiredColumns == CategoricalColumns \cup {"policy_support"}

\* A DataFrame: its columns and its rows, each row a function on the columns.
\* exc names the exception an operation on it raised ("" for none).
Frame(cols, rows) == [exc |-> "", cols |-> cols, rows |-> rows]
Raised(e) == [exc |-> e, cols |-> {}, rows |-> <<>>]

\* DataFrame.empty: no rows or no columns.
empty(d) == Len(d.rows) = 0 \/ d.cols = {}

\* DataFrame.copy(): a new frame with the same content.
copy(d) == Frame(d.cols, d.rows)

RECURSIVE SumSeq(_)
SumSeq(s) == IF s = <<>> THEN 0 ELSE Head(s) + SumSeq(Tail(s))

\* Mutant of filter_eq: the parameter is compared as given, not folded.
filter_eq_sensitive(d, col, value) ==
    IF d.exc # "" THEN d
    ELSE IF col \notin d.cols THEN Raised("KeyError")
    ELSE LET keep(r) == cell_eq(str_casefold(r[col]), value)
         IN  Frame(d.cols, SelectSeq(d.rows, keep))

\* d[col] of a frame, then a boolean-mask selection on the folded column:
\* sub_df[sub_df[col].str.casefold() == value.casefold()]
filter_eq(d, col, value) ==
    IF d.exc # "" THEN d
    ELSE IF col \notin d.cols THEN Raised("KeyError")
    ELSE LET folded == casefold(value)
             keep(r) == cell_eq(str_casefold(r[col]), folded)
         IN  Frame(d.cols, SelectSeq(d.rows, keep))

---------------------------------------------------------------------------
(* The handlers *)

\* A float as the fraction num/den; exc as for a frame.
Float(num, den) == [exc |-> "", num |-> num, den |-> den]
FloatRaised(e) == [exc |-> e, num |-> 0, den |-> 1]

\* Mutant of mean_support: the rate as a percentage.
mean_support_percent(sub_df) ==
    Float(100 * SumSeq([i \in 1..Len(sub_df.rows) |-> sub_df.rows[i]["policy_support"]]),
          Len(sub_df.rows))

\* Series.mean() of the policy_support column of a frame with rows.
mean_support(sub_df) ==
    Float(SumSeq([i \in 1..Len(sub_df.rows) |-> sub_df.rows[i]["policy_support"]]),
          Len(sub_df.rows))

calculate_support_rate(sub_df) ==
    IF empty(sub_df) THEN Float(0, 1)
    ELSE IF "policy_support" \notin sub_df.cols THEN FloatRaised("KeyError")
    ELSE mean_support(sub_df)

\* Mutant of round3: round(rate, 1).
round3_one_decimal(rate) ==
    LET n == 10 * rate.num
        q == n \div rate.den
        r == n % rate.den
    IN  100 * (IF 2 * r < rate.den THEN q
               ELSE IF 2 * r > rate.den THEN q + 1
               ELSE IF q % 2 = 0 THEN q ELSE q + 1)

\* round(rate, 3), in thousandths: the nearest, and the even one of two equally
\* near.  (A mean of 0/1 values is equally near two only when den is a multiple
\* of 16.)
round3(rate) ==
    LET n == 1000 * rate.num
        q == n \div rate.den
        r == n % rate.den
    IN  IF 2 * r < rate.den THEN q
        ELSE IF 2 * r > rate.den THEN q + 1
        ELSE IF q % 2 = 0 THEN q ELSE q + 1

\* Series.round(3) of the grouped means, in thousandths.
series_round3(rate) ==
    LET n == 1000 * rate.num
        q == n \div rate.den
        r == n % rate.den
    IN  IF 2 * r < rate.den THEN q
        ELSE IF 2 * r > rate.den THEN q + 1
        ELSE IF q % 2 = 0 THEN q ELSE q + 1

Ok(body) == [status |-> 200, body |-> body]
\* raise HTTPException(status_code, detail)
HTTPException(status_code, detail) == [status |-> status_code, body |-> [detail |-> detail]]
\* An exception no handler catches: the framework answers 500.
ServerError == [status |-> 500, body |-> [detail |-> "Internal Server Error"]]

overall_support(d) ==
    LET rate == calculate_support_rate(d)
    IN  IF rate.exc # "" THEN ServerError
        ELSE Ok([count |-> Len(d.rows), support_rate |-> round3(rate)])

\* if param: a parameter that is neither None nor the empty string.
truthy(param) == param # None /\ param # <<>>

\* Mutant of filtered: every filter selects from the whole dataset, not from
\* the result of the filters before it.
filtered_from_df(d, q) ==
    LET s0 == copy(d)
        s1 == IF truthy(q.gender) THEN filter_eq(s0, "gender", q.gender) ELSE s0
        s2 == IF truthy(q.race) THEN filter_eq(s0, "race", q.race) ELSE s1
        s3 == IF truthy(q.age_group) THEN filter_eq(s0, "age_group", q.age_group) ELSE s2
        s4 == IF truthy(q.education) THEN filter_eq(s0, "education", q.education) ELSE s3
        s5 == IF truthy(q.income) THEN filter_eq(s0, "income", q.income) ELSE s4
    IN  s5

\* The local sub_df when the five filters have been applied, one by one.
filtered(d, q) ==
    LET s0 == copy(d)
        s1 == IF truthy(q.gender) THEN filter_eq(s0, "gender", q.gender) ELSE s0
        s2 == IF truthy(q.race) THEN filter_eq(s1, "race", q.race) ELSE s1
        s3 == IF truthy(q.age_group) THEN filter_eq(s2, "age_group", q.age_group) ELSE s2
        s4 == IF truthy(q.education) THEN filter_eq(s3, "education", q.education) ELSE s3
        s5 == IF truthy(q.income) THEN filter_eq(s4, "income", q.income) ELSE s4
    IN  s5

\* Mutant of support_by: no check for an empty result.
support_by_no_404(d, q) ==
    LET sub_df == filtered(d, q)
        rate == calculate_support_rate(sub_df)
    IN  IF sub_df.exc # "" THEN ServerError
        ELSE IF rate.exc # "" THEN ServerError
        ELSE Ok([count |-> Len(sub_df.rows), support_rate |-> round3(rate)])

support_by(d, q) ==
    LET sub_df == filtered(d, q)
        rate == calculate_support_rate(sub_df)
    IN  IF sub_df.exc # "" THEN ServerError
        ELSE IF empty(sub_df)
        THEN HTTPException(404, "No respondents match the given filters.")
        ELSE IF rate.exc # "" THEN ServerError
        ELSE Ok([count |-> Len(sub_df.rows), support_rate |-> round3(rate)])

\* Mutant of df_after_support_by: the filters are applied to df itself.
df_after_support_by_inplace(d, q) == filtered(d, q)

\* The module-level df when support_by returns: the handler binds only sub_df.
df_after_support_by(d, q) == d

\* Mutant of valid_columns: one column left out of the list.
valid_columns_short == {"gender", "race", "age_group", "education"}

valid_columns == {"gender", "race", "age_group", "education", "income"}

\* The keys of df.groupby(col): the distinct values of the column, NaN dropped.
group_keys(d, col) == {d.rows[i][col] : i \in 1..Len(d.rows)} \ {NaN}

\* groupby sorts the keys.
RECURSIVE sorted(_)
sorted(keys) ==
    IF keys = {} THEN <<>>
    ELSE LET first == CHOOSE k \in keys : \A o \in keys \ {k} : str_less(k, o)
         IN  <<first>> \o sorted(keys \ {first})

\* Mutant of group_rows: the key is compared up to letter case.
group_rows_folded(d, col, key) ==
    LET in_group(r) == casefold(r[col]) = casefold(key)
    IN  Frame(d.cols, SelectSeq(d.rows, in_group))

\* The rows of one group: those whose key is exactly the group's.
group_rows(d, col, key) ==
    LET in_group(r) == r[col] = key
    IN  Frame(d.cols, SelectSeq(d.rows, in_group))

\* One record of to_dict(orient="records"): the key under the column's name,
\* agg's count and the rounded mean.
group_entry(d, col, key) ==
    LET g == group_rows(d, col, key)
    IN  (col :> key) @@ [count |-> Len(g.rows),
                         support_rate |-> series_round3(mean_support(g))]

\* The records in the order of the sorted keys; a frame with no rows has none.
grouped_records(d, col) ==
    LET keys == sorted(group_keys(d, col))
    IN  [i \in 1..Len(keys) |-> group_entry(d, col, keys[i])]

support_grouped(d, group_by) ==
    IF group_by \notin valid_columns
    THEN HTTPException(400, "Invalid group_by")
    ELSE IF group_by \notin d.cols \/ "policy_support" \notin d.cols THEN ServerError
    ELSE Ok(grouped_records(d, group_by))

\* The module-level df when support_grouped returns: groupby builds a new frame.
df_after_support_grouped(d, group_by) == d

---------------------------------------------------------------------------
(* The data file *)

Records == [gender : GenderValues, race : RaceValues, age_group : AgeGroupValues,
            education : EducationValues, income : IncomeValues,
            policy_support : SupportValues]

Tables == UNION {[1..n -> Records] : n \in 0..MaxRecords}

\* The rows of a table with only the columns cols.
Project(rows, cols) == [i \in 1..Len(rows) |-> [c \in cols |-> rows[i][c]]]

MissingFile == [exists |-> FALSE, cols |-> {}, rows |-> <<>>]

\* Files with a header naming every required column.
WellFormedFiles ==
    {[exists |-> TRUE, cols |-> RequiredColumns, rows |-> t] : t \in Tables}

\* Files whose header lacks one required column.
MalformedFiles ==
    {[exists |-> TRUE, cols |-> RequiredColumns \ {c},
      rows |-> Project(t, RequiredColumns \ {c})] : t \in Tables, c \in RequiredColumns}

\* The four records of the example: policy_support 1,0,1,1 and gender F,F,M,M,
\* the other attributes any values.
ExampleTables ==
    {t \in [1..4 -> [gender : {<<"F">>, <<"M">>}, race : RaceValues,
                     age_group : AgeGroupValues, education : EducationValues,
                     income : IncomeValues, policy_support : SupportValues]] :
        /\ [i \in 1..4 |-> t[i].policy_support] = <<1, 0, 1, 1>>
        /\ [i \in 1..4 |-> t[i].gender] = <<<<"F">>, <<"F">>, <<"M">>, <<"M">>>>}

ExampleFiles ==
    {[exists |-> TRUE, cols |-> RequiredColumns, rows |-> t] : t \in ExampleTables}

\* pd.read_csv(DATA_PATH) of a file that exists.
read_csv(f) == Frame(f.cols, f.rows)

---------------------------------------------------------------------------
(* The service *)

NoFrame == Frame({}, <<>>)
NoResponse == [op |-> "none", group_by |-> "", query |-> <<>>,
               result |-> [status |-> 0, body |-> [detail |-> ""]]]

Queries == [gender : GenderParams, race : RaceParams, age_group : AgeGroupParams,
            education : EducationParams, income : IncomeParams]

Start(files) ==
    /\ file \in files
    /\ phase = "starting"
    /\ df = NoFrame
    /\ startup_df = NoFrame
    /\ loads = 0
    /\ response = NoResponse

Init == Start({MissingFile} \cup WellFormedFiles)

InitLoad == Start({MissingFile} \cup WellFormedFiles \cup MalformedFiles)

InitExample == Start({MissingFile} \cup ExampleFiles)

\* The module body: read_csv returns and the application is created.
Load ==
    /\ phase = "starting"
    /\ file.exists
    /\ df' = read_csv(file)
    /\ startup_df' = read_csv(file)
    /\ loads' = loads + 1
    /\ phase' = "serving"
    /\ UNCHANGED <<file, response>>

\* The module body: read_csv raises FileNotFoundError, the except clause raises
\* RuntimeError and the import fails.
LoadFails ==
    /\ phase = "starting"
    /\ ~file.exists
    /\ phase' = "aborted"
    /\ UNCHANGED <<file, df, startup_df, loads, response>>

OverallSupport ==
    /\ phase = "serving"
    /\ response = NoResponse
    /\ response' = [op |-> "overall_support", group_by |-> "", query |-> <<>>,
                    result |-> overall_support(df)]
    /\ UNCHANGED <<file, phase, df, startup_df, loads>>

SupportBy(q) ==
    /\ phase = "serving"
    /\ response = NoResponse
    /\ response' = [op |-> "support_by", group_by |-> "", query |-> q,
                    result |-> support_by(df, q)]
    /\ df' = df_after_support_by(df, q)
    /\ UNCHANGED <<file, phase, startup_df, loads>>

SupportGrouped(group_by) ==
    /\ phase = "serving"
    /\ response = NoResponse
    /\ response' = [op |-> "support_grouped", group_by |-> group_by, query |-> <<>>,
                    result |-> support_grouped(df, group_by)]
    /\ df' = df_after_support_grouped(df, group_by)
    /\ UNCHANGED <<file, phase, startup_df, loads>>

\* The framework serialises the handler's result and sends it; the worker is
\* free for the next request.
Send ==
    /\ phase = "serving"
    /\ response # NoResponse
    /\ response' = NoResponse
    /\ UNCHANGED <<file, phase, df, startup_df, loads>>

Next ==
    \/ Load
    \/ LoadFails
    \/ OverallSupport
    \/ \E q \in Queries : SupportBy(q)
    \/ \E group_by \in GroupByParams : SupportGrouped(group_by)
    \/ Send

Spec == Init /\ [][Next]_vars

SpecLoad == InitLoad /\ [][Next]_vars

SpecExample == InitExample /\ [][Next]_vars

---------------------------------------------------------------------------
(* Vocabulary of the properties, stated without the handlers' operators *)

\* The pairs of a capital letter and its small letter, in both orders.
CasePairs ==
    {<<Upper[i], Lower[i]>> : i \in 1..Len(Upper)}
        \cup {<<Lower[i], Upper[i]>> : i \in 1..Len(Upper)}

\* Two characters that are the same letter, in either case.
SameLetter(x, y) == x = y \/ <<x, y>> \in CasePairs

\* Two strings that differ at most in the case of their letters.
EqualIgnoringCase(a, b) ==
    Len(a) = Len(b) /\ \A i \in 1..Len(a) : SameLetter(a[i], b[i])

\* A filter field that constrains: present and not the empty string.
NonEmpty(param) == param # None /\ param # <<>>

\* A record satisfies field c of a filterSpec.
SatisfiesField(r, q, c) ==
    NonEmpty(q[c]) => (r[c] # NaN /\ EqualIgnoringCase(r[c], q[c]))

\* A record satisfies every non-empty field of a filterSpec.
Satisfies(r, q) == \A c \in CategoricalColumns : SatisfiesField(r, q, c)

\* The positions of the records of d that satisfy q.
Matching(d, q) == {i \in 1..Len(d.rows) : Satisfies(d.rows[i], q)}

Supporters(d, S) == Cardinality({i \in S : d.rows[i]["policy_support"] = 1})

Abs(x) == IF x < 0 THEN -x ELSE x

\* r thousandths is num/den to three decimals: within half a thousandth of it.
IsRate(r, num, den) == 2 * Abs(1000 * num - r * den) <= den

\* The dataset invariant: no categorical attribute is null (the support
\* indicator is 0 or 1 in every table of the model).
DatasetInvariant(d) ==
    \A i \in 1..Len(d.rows) : \A c \in CategoricalColumns : d.rows[i][c] # NaN

NoFilter == [c \in CategoricalColumns |-> None]
\* The filterSpec with the single field c = v.
Only(c, v) == [NoFilter EXCEPT ![c] = v]
\* The filterSpec q without its field c.
Without(q, c) == [q EXCEPT ![c] = None]

Answered(op) == phase = "serving" /\ response.op = op

---------------------------------------------------------------------------
(* C1 *)

---------------------------------------------------------------------------
(* C2 *)

\* The five columns the claim names.
GroupableColumns == {"gender", "race", "age_group", "education", "income"}

\* C2: support_grouped answers 400 if and only if group_by is not exactly one
\* of gender, race, age_group, education, income; an invalid group_by never
\* gets a result list, a valid group_by never gets an error.
C2_InvalidColumnIffBadRequest ==
    Answered("support_grouped") =>
        LET res == response.result
        IN  /\ (res.status = 400) <=> (response.group_by \notin GroupableColumns)
            /\ response.group_by \notin GroupableColumns =>
                   res.status # 200 /\ DOMAIN res.body = {"detail"}
            /\ response.group_by \in GroupableColumns => res.status = 200

\* A group_by outside the five columns was answered 400.
C2_Witness ==
    /\ Answered("support_grouped")
    /\ response.group_by = "zip_code"
    /\ response.result.status = 400

---------------------------------------------------------------------------
(* C3 *)

IsAggregate ==
    /\ phase = "serving"
    /\ response.op \in {"overall_support", "support_by"}
    /\ response.result.status = 200

\* C3 as stated: support_rate is in [0.0, 1.0] and is 0.0 if and only if
\* count is 0.
C3_ZeroRateIffZeroCount ==
    IsAggregate =>
        LET body == response.result.body
        IN  /\ body.support_rate \in 0..1000
            /\ (body.support_rate = 0) <=> (body.count = 0)

\* C3, amended: support_rate is in [0.0, 1.0], and it is 0.0 when count is 0.
C3_RateInRange ==
    IsAggregate =>
        LET body == response.result.body
        IN  /\ body.support_rate \in 0..1000
            /\ body.count = 0 => body.support_rate = 0

\* overall_support answered for an empty dataset: count 0, rate 0.0.
C3_Witness ==
    /\ IsAggregate
    /\ response.op = "overall_support"
    /\ response.result.body.count = 0
    /\ response.result.body.support_rate = 0

---------------------------------------------------------------------------
(* C4 *)

\* The sum of the count fields of a list of group entries.
RECURSIVE SumCounts(_)
SumCounts(entries) ==
    IF entries = <<>> THEN 0 ELSE Head(entries).count + SumCounts(Tail(entries))

\* The distinct values of column c observed in d.
Observed(d, c) == {d.rows[i][c] : i \in 1..Len(d.rows)}

\* C4: on a dataset that satisfies the dataset invariant, support_grouped of a
\* valid column has exactly one entry per distinct value of the column, and
\* the counts of its entries add up to the count overall_support reports,
\* which is the number of records.
C4_GroupingComplete ==
    (Answered("support_grouped") /\ response.group_by \in GroupableColumns
        /\ DatasetInvariant(df)) =>
        LET body == response.result.body
            c == response.group_by
        IN  /\ response.result.status = 200
            /\ {body[i][c] : i \in 1..Len(body)} = Observed(df, c)
            /\ Len(body) = Cardinality(Observed(df, c))
            /\ SumCounts(body) = Len(df.rows)
            /\ SumCounts(body) = overall_support(df).body.count

\* A grouping with two groups on a dataset that satisfies the invariant.
C4_Witness ==
    /\ Answered("support_grouped")
    /\ DatasetInvariant(df)
    /\ response.result.status = 200
    /\ Len(response.result.body) = 2

---------------------------------------------------------------------------
(* C5 *)

\* C5: filters compose as a conjunction, in any order: for every non-empty
\* field c of the filterSpec, the records all the fields together retain are
\* those the other fields retain from what the filter on c retains, and those
\* the filter on c retains from what the other fields retain; support_by
\* answers the same whichever way the filters are applied.
C5_FilterComposition ==
    Answered("support_by") =>
        LET both == filtered(df, response.query).rows
        IN  \A c \in CategoricalColumns :
                NonEmpty(response.query[c]) =>
                    LET one == Only(c, response.query[c])
                        rest == Without(response.query, c)
                        one_rest == filtered(filtered(df, one), rest)
                        rest_one == filtered(filtered(df, rest), one)
                    IN  /\ both = one_rest.rows
                        /\ both = rest_one.rows
                        /\ response.result = support_by(one_rest, NoFilter)
                        /\ response.result = support_by(rest_one, NoFilter)

\* Two filters were applied, and the second dropped a record the first kept.
C5_Witness ==
    /\ Answered("support_by")
    /\ NonEmpty(response.query.gender)
    /\ NonEmpty(response.query.race)
    /\ response.result.status = 200
    /\ response.result.body.count
           < support_by(df, Only("gender", response.query.gender)).body.count

---------------------------------------------------------------------------
(* C6 *)

\* The values of a field that differ from v at most in letter case.
CaseVariants(params, v) ==
    {p \in params : IF p = None \/ v = None THEN p = v ELSE EqualIgnoringCase(p, v)}

\* The filterSpecs whose fields differ from those of q at most in letter case.
FiltersIgnoringCase(q) ==
    [gender : CaseVariants(GenderParams, q.gender),
     race : CaseVariants(RaceParams, q.race),
     age_group : CaseVariants(AgeGroupParams, q.age_group),
     education : CaseVariants(EducationParams, q.education),
     income : CaseVariants(IncomeParams, q.income)]

\* C6: filter values that differ only in letter case get the same answer, and
\* support_by retains exactly the records whose attribute is the filter value
\* up to letter case, in full.
C6_CaseInsensitive ==
    Answered("support_by") =>
        /\ \A q2 \in FiltersIgnoringCase(response.query) :
               support_by(df, q2) = response.result
        /\ filtered(df, response.query).rows
               = SelectSeq(df.rows, LAMBDA r : Satisfies(r, response.query))

\* A filter value in one case retained a record whose attribute is in the other.
C6_Witness ==
    /\ Answered("support_by")
    /\ response.result.status = 200
    /\ NonEmpty(response.query.gender)
    /\ \E i \in 1..Len(df.rows) :
           /\ Satisfies(df.rows[i], response.query)
           /\ df.rows[i].gender # response.query.gender

---------------------------------------------------------------------------
(* C7 *)

\* The answer of the handler of a request on dataset d.
Answer(d, r) ==
    CASE r.op = "overall_support" -> overall_support(d)
      [] r.op = "support_by" -> support_by(d, r.query)
      [] r.op = "support_grouped" -> support_grouped(d, r.group_by)

\* C7: whatever requests were answered before, the process-wide dataset is the
\* dataset as loaded at startup, and a request's answer is the one the same
\* request gets on the dataset as loaded: repeating it yields the same.
C7_NoHiddenMutation ==
    phase = "serving" =>
        /\ df = startup_df
        /\ startup_df = read_csv(file)
        /\ response # NoResponse => response.result = Answer(startup_df, response)

\* A filtered request that dropped records was answered.
C7_Witness ==
    /\ Answered("support_by")
    /\ response.result.status = 200
    /\ response.result.body.count < Len(startup_df.rows)

---------------------------------------------------------------------------
(* C8 *)

FemaleOnly == Only("gender", <<"F">>)

InExample == phase = "serving" /\ file \in ExampleFiles

\* C8 as stated: on the example, overall_support is {4, 0.5}, support_by of
\* gender F is {2, 0.5} and support_grouped of gender is F {2, 0.5}, M {2, 0.5}.
C8_ExampleAsStated ==
    InExample =>
        /\ response.op = "overall_support" =>
               response.result = Ok([count |-> 4, support_rate |-> 500])
        /\ (response.op = "support_by" /\ response.query = FemaleOnly) =>
               response.result = Ok([count |-> 2, support_rate |-> 500])
        /\ (response.op = "support_grouped" /\ response.group_by = "gender") =>
               response.result =
                   Ok(<<[gender |-> <<"F">>, count |-> 2, support_rate |-> 500],
                        [gender |-> <<"M">>, count |-> 2, support_rate |-> 500]>>)

\* C8, amended: on the example, overall_support is {4, 0.75}, support_by of
\* gender F is {2, 0.5} and support_grouped of gender is F {2, 0.5}, M {2, 1.0}.
C8_Example ==
    InExample =>
        /\ response.op = "overall_support" =>
               response.result = Ok([count |-> 4, support_rate |-> 750])
        /\ (response.op = "support_by" /\ response.query = FemaleOnly) =>
               response.result = Ok([count |-> 2, support_rate |-> 500])
        /\ (response.op = "support_grouped" /\ response.group_by = "gender") =>
               response.result =
                   Ok(<<[gender |-> <<"F">>, count |-> 2, support_rate |-> 500],
                        [gender |-> <<"M">>, count |-> 2, support_rate |-> 1000]>>)

\* The grouping by gender was answered on the example.
C8_Witness ==
    /\ InExample
    /\ response.op = "support_grouped"
    /\ response.group_by = "gender"
    /\ response.result.status = 200

---------------------------------------------------------------------------
(* C9 *)

\* C9 as stated: with the data file missing or lacking a required column the
\* service never serves, and whenever a request is answered a dataset with all
\* the required columns has been loaded exactly once.
C9_LoadFailureIsFatal ==
    /\ (~file.exists \/ ~(RequiredColumns \subseteq file.cols)) => phase # "serving"
    /\ (phase = "serving" /\ response # NoResponse) =>
           (RequiredColumns \subseteq df.cols /\ loads = 1)

---------------------------------------------------------------------------
(* C10 *)

GroupedOnInvariant ==
    /\ Answered("support_grouped")
    /\ response.result.status = 200
    /\ DatasetInvariant(df)

\* C10 as stated: on a dataset that satisfies the dataset invariant, every
\* entry of support_grouped(c), of group value v, has the count and the
\* support_rate that support_by answers for the single filter c = v.
C10_GroupedAgreesWithFiltered ==
    GroupedOnInvariant =>
        LET body == response.result.body
            c == response.group_by
        IN  \A i \in 1..Len(body) :
                LET a == support_by(df, Only(c, body[i][c]))
                IN  /\ a.status = 200
                    /\ a.body.count = body[i].count
                    /\ a.body.support_rate = body[i].support_rate

\* The entries whose group value is v up to letter case.
SameGroupIgnoringCase(body, c, v) ==
    SelectSeq(body, LAMBDA e : EqualIgnoringCase(e[c], v))

\* C10, amended: support_by of the single filter c = v counts the records of
\* every entry of support_grouped(c) whose group value is v up to letter case;
\* when the entry of v is the only one, it has the same count and support_rate.
C10_GroupedAgreesUpToCase ==
    GroupedOnInvariant =>
        LET body == response.result.body
            c == response.group_by
        IN  \A i \in 1..Len(body) :
                LET a == support_by(df, Only(c, body[i][c]))
                    same == SameGroupIgnoringCase(body, c, body[i][c])
                IN  /\ a.status = 200
                    /\ a.body.count = SumCounts(same)
                    /\ Len(same) = 1 =>
                           /\ a.body.count = body[i].count
                           /\ a.body.support_rate = body[i].support_rate

\* A grouping with two entries whose group values differ only in letter case.
C10_Witness ==
    /\ GroupedOnInvariant
    /\ \E i, j \in 1..Len(response.result.body) :
           /\ i # j
           /\ EqualIgnoringCase(response.result.body[i][response.group_by],
                                response.result.body[j][response.group_by])

====
